---- MODULE Spec2Model ----
(***************************************************************************)
(* AXFR2Route53.update_records: a zone transfer is read, the records of    *)
(* one type are aggregated per fully-qualified owner name, turned into     *)
(* UPSERT change operations and submitted to Route 53 in batches.          *)
(*                                                                         *)
(* One behaviour is a sequence of runs of the script with the same options *)
(* against the same source zone and the same hosted zone (dest).           *)
(***************************************************************************)
EXTENDS Integers, Sequences, FiniteSets, TLC

\* ------------------------------------------------------------------ bounds
\* Nodes in an enumerated zone.
MaxNodes == 2
\* Full batches of the largest generated zone, which holds
\* MaxBatches * BatchLimit + 1 names.
MaxBatches == 2
\* Runs of the script in one behaviour.
MaxRuns == 2

\* ------------------------------------------------------ program constants
\* The slice width and the threshold of the chunking branch.
BatchLimit == 98

\* Python's None (an option argparse left unset).
None == "None"

\* ---------------------------------------------------------------- helpers
Min(a, b) == IF a < b THEN a ELSE b

Reverse(s) == [i \in 1..Len(s) |-> s[Len(s) + 1 - i]]

\* ------------------------------------------------------------ conversions
\* str(n) of a non-negative int, as its sequence of decimal digits.
RECURSIVE StrOfInt(_)
StrOfInt(n) == IF n < 10 THEN <<n>> ELSE Append(StrOfInt(n \div 10), n % 10)

\* int(s) of a digit string.
RECURSIVE IntOfStr(_)
IntOfStr(s) ==
    IF Len(s) = 0 THEN 0
    ELSE IntOfStr(SubSeq(s, 1, Len(s) - 1)) * 10 + s[Len(s)]

\* str(name) of a relative dns name, a sequence of labels: the empty name
\* is rendered "@", any other as its labels joined by dots.
RECURSIVE JoinLabels(_)
JoinLabels(labels) ==
    IF Len(labels) = 1 THEN labels[1]
    ELSE labels[1] \o "." \o JoinLabels(Tail(labels))

NameText(name) == IF Len(name) = 0 THEN "@" ELSE JoinLabels(name)

\* str(rds) of one rdata.
RdataText(rd) ==
    IF rd.rdtype = "MX" THEN ToString(rd.preference) \o " " \o rd.exchange
    ELSE rd.address

\* -------------------------------------------------------------- the inputs
\* The record types the if/elif chain maps to an rdatatype.
SupportedTypes == {"A", "AAAA", "CNAME", "MX", "NS", "PTR", "SPF", "TXT", "SRV"}

\* The options argparse hands over; recordtype defaults to "A".
OptionSets ==
    [dns_server : {None, "192.0.2.53"},
     domain     : {None, "example.com"},
     hostedzone : {None, "Z1234567891011"},
     recordtype : {"A", "MX", "SOA"}]

ARdata(addr) == [rdtype |-> "A", address |-> addr, preference |-> 0, exchange |-> ""]
MXRdata(pref, host) == [rdtype |-> "MX", address |-> "", preference |-> pref, exchange |-> host]

\* An rdataset: one ttl for all of its rdatas.
Rdataset(ttl, items) == [present |-> TRUE, ttl |-> ttl, items |-> items]
\* What get_rdataset returns when the node has no rdataset of the type.
NoRdataset == [present |-> FALSE, ttl |-> 0, items |-> <<>>]

\* A node of z.nodes with its key: rdatasets maps a type to its rdataset.
Node(name, rdatasets) == [name |-> name, rdatasets |-> rdatasets]

OnlyA(rds) == [t \in {"A"} |-> rds]
AandMX(a, mx) == [t \in {"A", "MX"} |-> IF t = "A" THEN a ELSE mx]

\* The (name, node) items the loop over z.nodes.items() is given. The loop
\* keys adict on the text of the name and does not ask the texts to differ:
\* two items of the pool have the text host1, with rdatasets of another ttl.
\* One item is the apex, one has an rdataset without rdatas.
NodePool ==
    { Node(<<"host1">>, OnlyA(Rdataset(300, <<ARdata("10.0.0.1"), ARdata("10.0.0.2")>>))),
      Node(<<"host2">>, AandMX(Rdataset(60, <<ARdata("10.0.0.3")>>),
                               Rdataset(300, <<MXRdata(10, "mail.example.com.")>>))),
      Node(<<"host1">>, OnlyA(Rdataset(60, <<ARdata("10.0.0.4")>>))),
      Node(<<>>, AandMX(Rdataset(300, <<ARdata("10.0.0.9")>>),
                        Rdataset(300, <<MXRdata(5, "mx.example.com.")>>))),
      Node(<<"www", "dev">>, OnlyA(Rdataset(300, <<>>))) }

RECURSIVE SeqsUpTo(_, _)
SeqsUpTo(S, n) ==
    IF n = 0 THEN {<<>>}
    ELSE LET shorter == SeqsUpTo(S, n - 1)
         IN  shorter \cup {Append(s, x) : s \in shorter, x \in S}

SmallZones == SeqsUpTo(NodePool, MaxNodes)

\* A zone of n names with one A record each.
BigZone(n) ==
    [i \in 1..n |->
        Node(<<"h" \o ToString(i)>>,
             OnlyA(Rdataset(300, <<ARdata("10.1.0." \o ToString(i))>>)))]

\* The largest list of one batch, and the lists of MaxBatches full batches
\* without and with one more change.
BigLens == {BatchLimit, MaxBatches * BatchLimit, MaxBatches * BatchLimit + 1}

BigZones == {BigZone(n) : n \in BigLens}

Zones == SmallZones \cup BigZones

\* The hosted zone, a map from <<Name, Type>> to a record set: before the
\* first run it holds a record set the source zone has too, with other
\* values, and one the source zone does not have.
StaleDest ==
    [k \in {<<"host1.example.com.", "A">>, <<"old.example.com.", "A">>} |->
        [TTL |-> 30, ResourceRecords |-> <<[Value |-> "192.0.2.1"]>>]]

DestPool == {StaleDest}

\* ---------------------------------------------------------------- state
VARIABLES
    options,      \* self.options
    source,       \* the zone the upstream server holds
    hashorder,    \* the order this interpreter iterates a dict in
    dest,         \* the record sets of the hosted zone
    dest0,        \* dest before the first run
    run,          \* number of the current run
    runlog,       \* what the earlier runs did
    pc,           \* position of the current run in update_records
    failure,      \* why the current run ended, "" while it has not failed
    z,            \* z.nodes.items()
    rdtypevar,    \* rdtypevar
    adict,        \* adict, its entries in insertion order
    dns_changes,  \* dns_changes
    chunks,       \* chunks
    chunkcount,   \* chunkcount
    attempts      \* the calls of change_resource_record_sets of this run

vars == <<options, source, hashorder, dest, dest0, run, runlog, pc, failure,
          z, rdtypevar, adict, dns_changes, chunks, chunkcount, attempts>>

inputs == <<options, source, hashorder, dest0>>
locals == <<z, rdtypevar, adict, dns_changes, chunks, chunkcount>>

Init ==
    /\ options \in OptionSets
    /\ source \in Zones
    /\ hashorder \in {"forward", "reverse"}
    /\ dest0 \in DestPool
    /\ dest = dest0
    /\ run = 1
    /\ runlog = <<>>
    /\ pc = "start"
    /\ failure = ""
    /\ z = <<>>
    /\ rdtypevar = ""
    /\ adict = <<>>
    /\ dns_changes = <<>>
    /\ chunks = <<>>
    /\ chunkcount = 0
    /\ attempts = <<>>

\* raise SystemExit(...), or an exception nothing catches.
Fail(kind) ==
    /\ pc' = "failed"
    /\ failure' = kind

\* ------------------------------------------------------------- the run
\* try: print(... + self.options.dns_server + ...) except TypeError
CheckServer ==
    /\ pc = "start"
    /\ IF options.dns_server = None
       THEN Fail("NoServer")
       ELSE pc' = "xfr" /\ UNCHANGED failure
    /\ UNCHANGED <<inputs, dest, run, runlog, locals, attempts>>

\* z = dnszone.from_xfr(query.xfr(dns_server, domain)); AttributeError for
\* an unset domain is caught, any other exception of the transfer is not.
Transfer ==
    /\ pc = "xfr"
    /\ \/ /\ options.domain = None
          /\ Fail("NoDomain")
          /\ UNCHANGED z
       \/ /\ options.domain # None
          /\ Fail("TransferError")
          /\ UNCHANGED z
       \/ /\ options.domain # None
          /\ z' = source
          /\ pc' = "hostedzone"
          /\ UNCHANGED failure
    /\ UNCHANGED <<inputs, dest, run, runlog, rdtypevar, adict, dns_changes,
                   chunks, chunkcount, attempts>>

\* Faulty variant: the hosted zone is never tested.
CheckHostedZoneNoGuard ==
    /\ pc = "hostedzone"
    /\ pc' = "nodes"
    /\ UNCHANGED <<failure, inputs, dest, run, runlog, locals, attempts>>

CheckHostedZone ==
    /\ pc = "hostedzone"
    /\ IF options.hostedzone # None
       THEN pc' = "nodes" /\ UNCHANGED failure
       ELSE Fail("NoHostedZone")
    /\ UNCHANGED <<inputs, dest, run, runlog, locals, attempts>>

\* Faulty variant: the number of nodes is never tested.
CheckNodesNoGuard ==
    /\ pc = "nodes"
    /\ dns_changes' = <<>>
    /\ adict' = <<>>
    /\ pc' = "type"
    /\ UNCHANGED <<failure, inputs, dest, run, runlog, z, rdtypevar, chunks,
                   chunkcount, attempts>>

\* dns_changes = []; adict = {}; if len(z.nodes) == 0: raise SystemExit
CheckNodes ==
    /\ pc = "nodes"
    /\ dns_changes' = <<>>
    /\ adict' = <<>>
    /\ IF Len(z) = 0
       THEN Fail("NoData")
       ELSE pc' = "type" /\ UNCHANGED failure
    /\ UNCHANGED <<inputs, dest, run, runlog, z, rdtypevar, chunks, chunkcount,
                   attempts>>

\* the if/elif chain on self.options.recordtype
SelectType ==
    /\ pc = "type"
    /\ IF options.recordtype \in SupportedTypes
       THEN /\ rdtypevar' = options.recordtype
            /\ pc' = "aggregate"
            /\ UNCHANGED failure
       ELSE /\ Fail("UnsupportedType")
            /\ UNCHANGED rdtypevar
    /\ UNCHANGED <<inputs, dest, run, runlog, z, adict, dns_changes, chunks,
                   chunkcount, attempts>>

\* node.get_rdataset(rdclass=rdclassvar, rdtype=rdtypevar)
GetRdataset(node, rdclass, rdtype) ==
    IF rdclass = "IN" /\ rdtype \in DOMAIN node.rdatasets
    THEN node.rdatasets[rdtype]
    ELSE NoRdataset

\* not rdataset: None, or an rdataset without rdatas
Falsy(rdataset) == ~rdataset.present \/ Len(rdataset.items) = 0

\* recordname in adict
HasKey(d, key) == \E i \in 1..Len(d) : d[i].key = key

KeyIndex(d, key) == CHOOSE i \in 1..Len(d) : d[i].key = key

\* recordname = str(name) + "." + self.options.domain + "."
RecordName(name, domain) == NameText(name) \o "." \o domain \o "."

\* Faulty variant: a record of a known name replaces the values of the entry.
AddRecordOverwrite(d, recordname, rds, rdataset) ==
    IF HasKey(d, recordname)
    THEN [d EXCEPT ![KeyIndex(d, recordname)].records = <<RdataText(rds)>>]
    ELSE Append(d, [key     |-> recordname,
                    records |-> <<RdataText(rds)>>,
                    ttl     |-> StrOfInt(rdataset.ttl)])

\* Faulty variant: a record of a known name also stores the ttl of its rdataset.
AddRecordLastTtl(d, recordname, rds, rdataset) ==
    IF HasKey(d, recordname)
    THEN [d EXCEPT ![KeyIndex(d, recordname)].records = Append(@, RdataText(rds)),
                   ![KeyIndex(d, recordname)].ttl = StrOfInt(rdataset.ttl)]
    ELSE Append(d, [key     |-> recordname,
                    records |-> <<RdataText(rds)>>,
                    ttl     |-> StrOfInt(rdataset.ttl)])

\* The body of the else branch of the apex test: append to the entry of
\* recordname, or create it with the ttl of the rdataset.
AddRecord(d, recordname, rds, rdataset) ==
    IF HasKey(d, recordname)
    THEN [d EXCEPT ![KeyIndex(d, recordname)].records = Append(@, RdataText(rds))]
    ELSE Append(d, [key     |-> recordname,
                    records |-> <<RdataText(rds)>>,
                    ttl     |-> StrOfInt(rdataset.ttl)])

\* Faulty variant: the apex is not skipped.
RECURSIVE ProcessRdatasetNoApex(_, _, _, _, _)
ProcessRdatasetNoApex(d, name, rdataset, i, domain) ==
    IF i > Len(rdataset.items) THEN d
    ELSE ProcessRdatasetNoApex(
            AddRecord(d, RecordName(name, domain), rdataset.items[i], rdataset),
            name, rdataset, i + 1, domain)

\* for rds in rdataset: skip the apex, else add the record
RECURSIVE ProcessRdataset(_, _, _, _, _)
ProcessRdataset(d, name, rdataset, i, domain) ==
    IF i > Len(rdataset.items) THEN d
    ELSE ProcessRdataset(
            IF NameText(name) = "@" THEN d
            ELSE AddRecord(d, RecordName(name, domain), rdataset.items[i], rdataset),
            name, rdataset, i + 1, domain)

\* One pass of: for name, node in z.nodes.items(), which skips the node
\* without an rdataset of the type.
ProcessNode(d, node, domain, rdtype) ==
    LET rdataset == GetRdataset(node, "IN", rdtype)
    IN  IF Falsy(rdataset) THEN d
        ELSE ProcessRdataset(d, node.name, rdataset, 1, domain)

\* The passes for nodes[lo..hi], first to last. The range is halved and the
\* first half computed (its length asked for) before the second starts, which
\* keeps the evaluation shallow.
RECURSIVE ProcessNodes(_, _, _, _, _, _)
ProcessNodes(d, nodes, lo, hi, domain, rdtype) ==
    IF lo > hi THEN d
    ELSE IF lo = hi THEN ProcessNode(d, nodes[lo], domain, rdtype)
    ELSE LET mid == (lo + hi) \div 2
             left == ProcessNodes(d, nodes, lo, mid, domain, rdtype)
         IN  IF Len(left) >= 0
             THEN ProcessNodes(left, nodes, mid + 1, hi, domain, rdtype)
             ELSE left

Aggregate ==
    /\ pc = "aggregate"
    /\ adict' = ProcessNodes(adict, z, 1, Len(z), options.domain, rdtypevar)
    /\ pc' = "build"
    /\ UNCHANGED <<inputs, dest, run, runlog, failure, z, rdtypevar, dns_changes,
                   chunks, chunkcount, attempts>>

\* adict.iteritems(): the order of a Python 2 dict is arbitrary, and the
\* same for the same insertions under the same interpreter.
DictItems(d) == IF hashorder = "forward" THEN d ELSE Reverse(d)

\* The change of one (key, thedict) item.
ChangeOf(item, recordtype) ==
    [Action |-> "UPSERT",
     ResourceRecordSet |->
        [Name |-> item.key,
         Type |-> recordtype,
         TTL  |-> IntOfStr(item.ttl),
         ResourceRecords |->
            [j \in 1..Len(item.records) |-> [Value |-> item.records[j]]]]]

BuildChanges ==
    /\ pc = "build"
    /\ dns_changes' =
          dns_changes \o
          [i \in 1..Len(adict) |-> ChangeOf(DictItems(adict)[i], options.recordtype)]
    /\ pc' = "count"
    /\ UNCHANGED <<inputs, dest, run, runlog, failure, z, rdtypevar, adict,
                   chunks, chunkcount, attempts>>

\* Faulty variant: the length of dns_changes is never tested.
CheckChangesNoGuard ==
    /\ pc = "count"
    /\ pc' = "connect"
    /\ UNCHANGED <<failure, inputs, dest, run, runlog, locals, attempts>>

\* if len(dns_changes) == 0: raise SystemExit
CheckChanges ==
    /\ pc = "count"
    /\ IF Len(dns_changes) = 0
       THEN Fail("NoRecords")
       ELSE pc' = "connect" /\ UNCHANGED failure
    /\ UNCHANGED <<inputs, dest, run, runlog, locals, attempts>>

\* xrange(start, stop, step) for a positive step
XRange(start, stop, step) ==
    [i \in 1..((stop - start + step - 1) \div step) |-> start + (i - 1) * step]

\* s[a:b] for 0 <= a <= b
Slice(s, a, b) == SubSeq(s, a + 1, Min(b, Len(s)))

\* Faulty variant: slices of 97 every 98, the last change of a slice is lost.
ChunksOfShort(changes) ==
    LET xs == XRange(0, Len(changes), BatchLimit)
    IN  [k \in 1..Len(xs) |-> Slice(changes, xs[k], xs[k] + BatchLimit - 1)]

\* Faulty variant: slices of 100, as the message of the branch has it, every 98.
ChunksOfHundred(changes) ==
    LET xs == XRange(0, Len(changes), BatchLimit)
    IN  [k \in 1..Len(xs) |-> Slice(changes, xs[k], xs[k] + BatchLimit + 2)]

\* [dns_changes[x:x+98] for x in xrange(0, len(dns_changes), 98)]
ChunksOf(changes) ==
    LET xs == XRange(0, Len(changes), BatchLimit)
    IN  [k \in 1..Len(xs) |-> Slice(changes, xs[k], xs[k] + BatchLimit)]

\* client = boto3.client('route53'); the branch on len(dns_changes) > 98
Connect ==
    /\ pc = "connect"
    /\ IF Len(dns_changes) > BatchLimit
       THEN /\ chunks' = ChunksOf(dns_changes)
            /\ chunkcount' = 0
            /\ pc' = "chunks"
       ELSE /\ pc' = "single"
            /\ UNCHANGED <<chunks, chunkcount>>
    /\ UNCHANGED <<inputs, dest, run, runlog, failure, z, rdtypevar, adict,
                   dns_changes, attempts>>

\* Faulty variant: the values of the change are added to those the record set has.
UpsertMerge(d, rrset) ==
    LET key == <<rrset.Name, rrset.Type>>
    IN  [k \in DOMAIN d \cup {key} |->
            IF k = key
            THEN [TTL |-> rrset.TTL,
                  ResourceRecords |->
                     IF key \in DOMAIN d
                     THEN d[key].ResourceRecords \o rrset.ResourceRecords
                     ELSE rrset.ResourceRecords]
            ELSE d[k]]

\* UPSERT: the record set of (Name, Type) is created, or replaced in full.
Upsert(d, rrset) ==
    LET key == <<rrset.Name, rrset.Type>>
    IN  [k \in DOMAIN d \cup {key} |->
            IF k = key
            THEN [TTL |-> rrset.TTL, ResourceRecords |-> rrset.ResourceRecords]
            ELSE d[k]]

ApplyChange(d, change) ==
    IF change.Action = "UPSERT" THEN Upsert(d, change.ResourceRecordSet) ELSE d

\* An accepted ChangeBatch: the changes batch[lo..hi] applied first to last
\* (halved as in ProcessNodes).
RECURSIVE ApplyBatch(_, _, _, _)
ApplyBatch(d, batch, lo, hi) ==
    IF lo > hi THEN d
    ELSE IF lo = hi THEN ApplyChange(d, batch[lo])
    ELSE LET mid == (lo + hi) \div 2
             left == ApplyBatch(d, batch, lo, mid)
         IN  IF Cardinality(DOMAIN left) >= 0
             THEN ApplyBatch(left, batch, mid + 1, hi)
             ELSE left

\* Faulty variant: a call that raises is passed over and the run goes on.
CallApiSwallow(batch, next_pc) ==
    \/ /\ dest' = ApplyBatch(dest, batch, 1, Len(batch))
       /\ attempts' = Append(attempts, [batch |-> batch, ok |-> TRUE])
       /\ pc' = next_pc
       /\ UNCHANGED failure
    \/ /\ attempts' = Append(attempts, [batch |-> batch, ok |-> FALSE])
       /\ pc' = next_pc
       /\ UNCHANGED <<failure, dest>>

\* client.change_resource_record_sets(ChangeBatch={'Changes': batch}):
\* the batch is accepted, or the call raises and nothing is applied.
CallApi(batch, next_pc) ==
    \/ /\ dest' = ApplyBatch(dest, batch, 1, Len(batch))
       /\ attempts' = Append(attempts, [batch |-> batch, ok |-> TRUE])
       /\ pc' = next_pc
       /\ UNCHANGED failure
    \/ /\ attempts' = Append(attempts, [batch |-> batch, ok |-> FALSE])
       /\ Fail("SubmissionError")
       /\ UNCHANGED dest

\* One pass of: for chunk in chunks
SubmitChunk ==
    /\ pc = "chunks"
    /\ chunkcount < Len(chunks)
    /\ chunkcount' = chunkcount + 1
    /\ CallApi(chunks[chunkcount + 1],
               IF chunkcount + 1 = Len(chunks) THEN "done" ELSE "chunks")
    /\ UNCHANGED <<inputs, run, runlog, z, rdtypevar, adict, dns_changes, chunks>>

\* The else branch: the whole list as one batch.
SubmitAll ==
    /\ pc = "single"
    /\ CallApi(dns_changes, "done")
    /\ UNCHANGED <<inputs, run, runlog, locals>>

\* Whether the current run has built dns_changes.
Built ==
    \/ pc \in {"count", "connect", "chunks", "single", "done"}
    \/ pc = "failed" /\ failure \in {"NoRecords", "SubmissionError"}

\* The script is run again: same options, same source zone, same hosted zone.
Rerun ==
    /\ pc \in {"done", "failed"}
    /\ run < MaxRuns
    /\ run' = run + 1
    /\ runlog' = Append(runlog, [outcome  |-> pc,
                                 failure  |-> failure,
                                 accepted |-> Cardinality({i \in 1..Len(attempts) : attempts[i].ok})])
    /\ pc' = "start"
    /\ failure' = ""
    /\ z' = <<>>
    /\ rdtypevar' = ""
    /\ adict' = <<>>
    /\ dns_changes' = <<>>
    /\ chunks' = <<>>
    /\ chunkcount' = 0
    /\ attempts' = <<>>
    /\ UNCHANGED <<inputs, dest>>

Next ==
    \/ CheckServer
    \/ Transfer
    \/ CheckHostedZone
    \/ CheckNodes
    \/ SelectType
    \/ Aggregate
    \/ BuildChanges
    \/ CheckChanges
    \/ Connect
    \/ SubmitChunk
    \/ SubmitAll
    \/ Rerun

Spec == Init /\ [][Next]_vars
\* ------------------------------------------------------------ properties
\* The nodes of zone that give the loop a record: the owner is not the
\* apex and the node has a non-empty rdataset of the type.
Contributes(node, rdtype) ==
    /\ NameText(node.name) # "@"
    /\ ~Falsy(GetRdataset(node, "IN", rdtype))

\* The least n with n * b >= len.
Ceil(len, b) == CHOOSE n \in 0..len : n * b >= len /\ (n - 1) * b < len

RECURSIVE Concat(_, _)
Concat(batches, n) ==
    IF n = 0 THEN <<>> ELSE Concat(batches, n - 1) \o batches[n].batch

NthBatch(i) ==
    [j \in 1..Min(BatchLimit, Len(dns_changes) - (i - 1) * BatchLimit) |->
        dns_changes[(i - 1) * BatchLimit + j]]

\* C2: the batches are submitted one after another in list order, and a
\* failed submission is the last call of the run: the run has failed, no
\* later batch is attempted and the failed one is not submitted again.
C2_SequentialAbortOnFailure ==
    \A i \in 1..Len(attempts) :
        /\ attempts[i].batch = NthBatch(i)
        /\ ~attempts[i].ok =>
              /\ i = Len(attempts)
              /\ pc = "failed"
              /\ failure = "SubmissionError"

C2_Witness ==
    /\ Len(dns_changes) > 2 * BatchLimit
    /\ Len(attempts) = 2
    /\ attempts[1].ok
    /\ ~attempts[2].ok
    /\ pc = "failed"

\* The fatal conditions that the options and the source zone decide.
InputFatal ==
    \/ options.dns_server = None
    \/ options.domain = None
    \/ options.hostedzone = None
    \/ options.recordtype \notin SupportedTypes
    \/ Len(source) = 0
    \/ ~\E i \in 1..Len(source) : Contributes(source[i], options.recordtype)

\* C3: in a run with a fatal condition (server, domain or hosted zone
\* missing, transfer failure, unsupported type, zone without nodes, no
\* record of the type) no call of change_resource_record_sets is made and
\* the run never ends well; when the inputs decide the condition the hosted
\* zone is never changed.
C3_FatalBeforeAnyApiCall ==
    /\ (InputFatal \/ failure = "TransferError") =>
          /\ attempts = <<>>
          /\ pc \notin {"connect", "chunks", "single", "done"}
    /\ InputFatal => dest = dest0

C3_Witness ==
    /\ pc = "failed"
    /\ failure = "UnsupportedType"
    /\ run = 2
    /\ runlog[1].failure = "TransferError"

\* The recordname of every contributing node of z, "" for the others.
ZoneNames ==
    [i \in 1..Len(z) |->
        IF Contributes(z[i], rdtypevar)
        THEN RecordName(z[i].name, options.domain)
        ELSE ""]

\* The recordnames of the contributing nodes.
OwnerNames(names) == {names[i] : i \in {k \in DOMAIN names : names[k] # ""}}

\* The contributing nodes with the recordname fq.
NodesOf(names, fq) == {i \in DOMAIN names : names[i] = fq}

\* The positions <<node, rdata>> of the records of the type that belong to
\* the recordname fq.
RecordsOf(names, fq) ==
    UNION {{<<i, j>> : j \in 1..Len(GetRdataset(z[i], "IN", rdtypevar).items)} :
              i \in NodesOf(names, fq)}

Before(p, q) == p[1] < q[1] \/ (p[1] = q[1] /\ p[2] <= q[2])

\* The values of fq in the order the zone gives them.
ValuesOf(names, fq) ==
    LET P == RecordsOf(names, fq)
    IN  [k \in 1..Cardinality(P) |->
            LET p == CHOOSE q \in P : Cardinality({r \in P : Before(r, q)}) = k
            IN  RdataText(GetRdataset(z[p[1]], "IN", rdtypevar).items[p[2]])]

NoApexOwner == \A i \in 1..Len(z) : NameText(z[i].name) # "@"

\* C4: for a zone without apex owner, after the aggregation loop adict has
\* one entry per distinct owner name with records of the type, and the
\* entry holds the values of that name and type, in the order seen.
C4_OneEntryPerName ==
    (pc = "build" /\ NoApexOwner) =>
        LET names == ZoneNames
        IN  /\ Len(adict) = Cardinality(OwnerNames(names))
            /\ {adict[i].key : i \in 1..Len(adict)} = OwnerNames(names)
            /\ \A i \in 1..Len(adict) :
                  adict[i].records = ValuesOf(names, adict[i].key)

C4_Witness ==
    /\ pc = "build"
    /\ NoApexOwner
    /\ Len(z) = 2
    /\ Len(adict) = 1
    /\ Len(adict[1].records) = 3

\* What a hosted zone d holds after every change of the source zone is
\* applied to it once, in order.
FullChanges ==
    LET d == ProcessNodes(<<>>, source, 1, Len(source), options.domain,
                          options.recordtype)
    IN  [i \in 1..Len(d) |-> ChangeOf(DictItems(d)[i], options.recordtype)]

\* C5: whenever a run completes, after any number of aborted or completed
\* runs against the same source zone, the hosted zone is what one complete
\* run leaves of dest0.
C5_RerunConverges ==
    pc = "done" =>
        dest = LET all == FullChanges IN ApplyBatch(dest0, all, 1, Len(all))

C5_Witness ==
    /\ pc = "done"
    /\ run = 2
    /\ runlog[1].failure = "SubmissionError"
    /\ runlog[1].accepted >= 1

FirstOf(S) == CHOOSE i \in S : \A k \in S : i <= k
LastOf(S) == CHOOSE i \in S : \A k \in S : i >= k

TtlAt(i) == GetRdataset(z[i], "IN", rdtypevar).ttl

IsApex(node) == NameText(node.name) = "@"
NotApex(node) == ~IsApex(node)

\* C8: the apex gets no entry and no change operation, and the entries are
\* those of the zone without its apex nodes.
C8_ApexSkipped ==
    pc = "count" =>
        /\ \A i \in 1..Len(adict) : adict[i].key # RecordName(<<>>, options.domain)
        /\ \A i \in 1..Len(dns_changes) :
              dns_changes[i].ResourceRecordSet.Name # RecordName(<<>>, options.domain)
        /\ LET rest == SelectSeq(z, NotApex)
           IN  adict = ProcessNodes(<<>>, rest, 1, Len(rest), options.domain, rdtypevar)

C8_Witness ==
    /\ pc = "count"
    /\ Len(z) = 2
    /\ IsApex(z[1])
    /\ ~Falsy(GetRdataset(z[1], "IN", rdtypevar))
    /\ Len(adict) = 1

\* The run is past the test of len(z.nodes).
AfterNodesCheck ==
    \/ pc \in {"type", "aggregate", "build", "count", "connect", "chunks",
               "single", "done"}
    \/ pc = "failed" /\ failure \in {"UnsupportedType", "NoRecords", "SubmissionError"}

\* C9: a zone without nodes fails the run with the no-data failure at the
\* test of len(z.nodes), before the aggregation loop; the no-records
\* failure is another one, raised only for a zone with nodes whose
\* aggregation gave no entry.
C9_NoDataBeforeAggregation ==
    /\ AfterNodesCheck => Len(z) >= 1
    /\ (pc = "failed" /\ failure = "NoData") =>
          Len(z) = 0 /\ adict = <<>> /\ dns_changes = <<>>
    /\ (pc = "failed" /\ failure = "NoRecords") =>
          Len(z) >= 1 /\ adict = <<>> /\ dns_changes = <<>>
    /\ (Len(source) = 0 /\ pc = "failed") =>
          failure \in {"NoServer", "NoDomain", "TransferError", "NoHostedZone", "NoData"}

C9_Witness ==
    /\ pc = "failed"
    /\ failure = "NoData"
    /\ options.recordtype = "SOA"

====
